---------------------------- MODULE Spec2Model ----------------------------
(***************************************************************************)
(* The tolerant JSON extraction and repair engine of ConfigService.ts      *)
(* (fixJsonString, simpleJsonRepair, extractJsonCandidates,                *)
(* extremeJsonFallback) and the parse paths of its two callers.            *)
(*                                                                         *)
(* A text is a sequence of one-character strings.  JSON.parse is modelled  *)
(* by a deterministic push-down recogniser (JStep) that also produces the  *)
(* decoded value in canonical form: the text with the insignificant white  *)
(* space removed.                                                          *)
(***************************************************************************)
EXTENDS Integers, Sequences, FiniteSets, TLC

(***************************************************************************)
(* Characters                                                              *)
(***************************************************************************)
QUOTE == "\""
BSLASH == "\\"
NL == "\n"
TAB == "\t"
CR == "\r"

\* The characters the pattern \s and String.prototype.trim treat as white
\* space, among the characters of the model's alphabet.
IsSpace(c) == c \in {" ", NL, TAB, CR}

\* A character below U+0020, which JSON.parse rejects inside a string.
IsControl(c) == c \in {NL, TAB, CR}

Digits == {"0", "1", "2", "3", "4", "5", "6", "7", "8", "9"}

HexDigits == Digits \cup {"a", "b", "c", "d", "e", "f", "A", "B", "C", "D", "E", "F"}

(***************************************************************************)
(* String primitives of the JavaScript runtime                             *)
(***************************************************************************)
\* s.substring(a, b) with 0-based a and exclusive b is SubSeq(s, a+1, b).
Substring(s, a, b) == SubSeq(s, a + 1, b)

\* s.indexOf(c): the 0-based index of the first c, or -1.
IndexOf(s, c) ==
  IF \E i \in 1..Len(s) : s[i] = c
  THEN (CHOOSE i \in 1..Len(s) : s[i] = c /\ \A j \in 1..(i - 1) : s[j] # c) - 1
  ELSE -1

\* s.lastIndexOf(c): the 0-based index of the last c, or -1.
LastIndexOf(s, c) ==
  IF \E i \in 1..Len(s) : s[i] = c
  THEN (CHOOSE i \in 1..Len(s) : s[i] = c /\ \A j \in (i + 1)..Len(s) : s[j] # c) - 1
  ELSE -1

\* TRUE, once x has been evaluated.  The loops below run over a text by
\* halves, left half first, and test the left half's state with this before
\* they go on: the order is the loop's, and TLC's evaluation stays shallow.
Evaluated(x) == x = x

RECURSIVE TrimLeft(_)
TrimLeft(s) ==
  IF s # <<>> /\ IsSpace(Head(s)) THEN TrimLeft(Tail(s)) ELSE s

RECURSIVE TrimRight(_)
TrimRight(s) ==
  IF s # <<>> /\ IsSpace(s[Len(s)]) THEN TrimRight(SubSeq(s, 1, Len(s) - 1)) ELSE s

\* s.trim()
Trim(s) == TrimRight(TrimLeft(s))

\* The 1-based index of the first character at or after i that is not white
\* space (Len(s) + 1 when there is none): where a greedy \s* stops.
RECURSIVE SkipSpace(_, _)
SkipSpace(s, i) ==
  IF i <= Len(s) /\ IsSpace(s[i]) THEN SkipSpace(s, i + 1) ELSE i

\* Whether the characters of pat occur in s from the 1-based index i on.
StartsAt(s, i, pat) ==
  /\ i >= 1
  /\ i + Len(pat) - 1 <= Len(s)
  /\ \A k \in 1..Len(pat) : s[i + k - 1] = pat[k]

\* s.replace(c, rep) with a string pattern: the first occurrence only.
ReplaceFirst(s, c, rep) ==
  LET p == IndexOf(s, c)
  IN  IF p = -1 THEN s
      ELSE SubSeq(s, 1, p) \o rep \o SubSeq(s, p + 2, Len(s))

(***************************************************************************)
(* JSON.parse                                                              *)
(***************************************************************************)
\* The recogniser's state: the mode, the stack of open containers ("o" for
\* an object, "a" for an array), the characters a literal still needs (or
\* the hex digits a \u escape still needs, as a sequence of that length),
\* whether the string being read is a key, and the canonical text so far.
JInit == [mode |-> "value", stack |-> <<>>, need |-> <<>>, key |-> FALSE, out |-> <<>>]

JErr(st) == [st EXCEPT !.mode = "err"]

\* The modes in which a number may end.
NumberEnd == {"zero", "int", "frac", "expdig"}

\* A value is complete: what follows it.
JAfter(st, c) ==
  IF IsSpace(c) THEN [st EXCEPT !.mode = "after"]
  ELSE IF st.stack = <<>> THEN JErr(st)
  ELSE LET top == st.stack[Len(st.stack)]
           rest == SubSeq(st.stack, 1, Len(st.stack) - 1)
       IN  IF c = "," /\ top = "a"
             THEN [st EXCEPT !.mode = "value", !.out = Append(@, c)]
           ELSE IF c = "," /\ top = "o"
             THEN [st EXCEPT !.mode = "key", !.out = Append(@, c)]
           ELSE IF (c = "]" /\ top = "a") \/ (c = "}" /\ top = "o")
             THEN [st EXCEPT !.mode = "after", !.stack = rest, !.out = Append(@, c)]
           ELSE JErr(st)

\* The first character of a value.
JValue(st, c) ==
  IF c = "{" THEN [st EXCEPT !.mode = "obj0", !.stack = Append(@, "o"), !.out = Append(@, c)]
  ELSE IF c = "[" THEN [st EXCEPT !.mode = "arr0", !.stack = Append(@, "a"), !.out = Append(@, c)]
  ELSE IF c = QUOTE THEN [st EXCEPT !.mode = "str", !.key = FALSE, !.out = Append(@, c)]
  ELSE IF c = "-" THEN [st EXCEPT !.mode = "minus", !.out = Append(@, c)]
  ELSE IF c = "0" THEN [st EXCEPT !.mode = "zero", !.out = Append(@, c)]
  ELSE IF c \in Digits THEN [st EXCEPT !.mode = "int", !.out = Append(@, c)]
  ELSE IF c = "t" THEN [st EXCEPT !.mode = "lit", !.need = <<"r", "u", "e">>, !.out = Append(@, c)]
  ELSE IF c = "f" THEN [st EXCEPT !.mode = "lit", !.need = <<"a", "l", "s", "e">>, !.out = Append(@, c)]
  ELSE IF c = "n" THEN [st EXCEPT !.mode = "lit", !.need = <<"u", "l", "l">>, !.out = Append(@, c)]
  ELSE JErr(st)

\* One character inside a string literal.
JString(st, c) ==
  IF st.mode = "str" THEN
       IF c = QUOTE
         THEN [st EXCEPT !.mode = IF st.key THEN "colon" ELSE "after", !.out = Append(@, c)]
       ELSE IF c = BSLASH THEN [st EXCEPT !.mode = "stresc", !.out = Append(@, c)]
       ELSE IF IsControl(c) THEN JErr(st)
       ELSE [st EXCEPT !.out = Append(@, c)]
  ELSE IF st.mode = "stresc" THEN
       IF c \in {QUOTE, BSLASH, "/", "b", "f", "n", "r", "t"}
         THEN [st EXCEPT !.mode = "str", !.out = Append(@, c)]
       ELSE IF c = "u"
         THEN [st EXCEPT !.mode = "hex", !.need = <<"h", "h", "h", "h">>, !.out = Append(@, c)]
       ELSE JErr(st)
  ELSE \* "hex"
       IF c \in HexDigits
         THEN [st EXCEPT !.mode = IF Len(st.need) = 1 THEN "str" ELSE "hex",
                         !.need = Tail(@), !.out = Append(@, c)]
       ELSE JErr(st)

\* One character inside a number.
JNumber(st, c) ==
  LET keep(m) == [st EXCEPT !.mode = m, !.out = Append(@, c)]
  IN  IF st.mode = "minus" THEN
           IF c = "0" THEN keep("zero") ELSE IF c \in Digits THEN keep("int") ELSE JErr(st)
      ELSE IF st.mode = "dot" THEN
           IF c \in Digits THEN keep("frac") ELSE JErr(st)
      ELSE IF st.mode = "exp" THEN
           IF c \in {"+", "-"} THEN keep("expsign")
           ELSE IF c \in Digits THEN keep("expdig") ELSE JErr(st)
      ELSE IF st.mode = "expsign" THEN
           IF c \in Digits THEN keep("expdig") ELSE JErr(st)
      ELSE IF st.mode \in {"int", "frac", "expdig"} /\ c \in Digits THEN keep(st.mode)
      ELSE IF st.mode \in {"zero", "int"} /\ c = "." THEN keep("dot")
      ELSE IF st.mode \in {"zero", "int", "frac"} /\ c \in {"e", "E"} THEN keep("exp")
      ELSE JAfter(st, c)

\* The recogniser's transition on one character.
JStep(st, c) ==
  IF st.mode = "err" THEN st
  ELSE IF st.mode \in {"str", "stresc", "hex"} THEN JString(st, c)
  ELSE IF st.mode \in {"minus", "zero", "int", "dot", "frac", "exp", "expsign", "expdig"}
    THEN JNumber(st, c)
  ELSE IF st.mode = "lit" THEN
       IF c = Head(st.need)
         THEN [st EXCEPT !.mode = IF Len(st.need) = 1 THEN "after" ELSE "lit",
                         !.need = Tail(@), !.out = Append(@, c)]
       ELSE JErr(st)
  ELSE IF st.mode = "after" THEN JAfter(st, c)
  ELSE IF IsSpace(c) THEN st
  ELSE IF st.mode = "value" THEN JValue(st, c)
  ELSE IF st.mode = "arr0" THEN
       IF c = "]"
         THEN [st EXCEPT !.mode = "after", !.stack = SubSeq(@, 1, Len(@) - 1), !.out = Append(@, c)]
       ELSE JValue(st, c)
  ELSE IF st.mode = "obj0" THEN
       IF c = "}"
         THEN [st EXCEPT !.mode = "after", !.stack = SubSeq(@, 1, Len(@) - 1), !.out = Append(@, c)]
       ELSE IF c = QUOTE THEN [st EXCEPT !.mode = "str", !.key = TRUE, !.out = Append(@, c)]
       ELSE JErr(st)
  ELSE IF st.mode = "key" THEN
       IF c = QUOTE THEN [st EXCEPT !.mode = "str", !.key = TRUE, !.out = Append(@, c)]
       ELSE JErr(st)
  ELSE \* "colon"
       IF c = ":" THEN [st EXCEPT !.mode = "value", !.out = Append(@, c)]
       ELSE JErr(st)

\* The recogniser's state after the characters lo..hi of s, from state st.
RECURSIVE JRun(_, _, _, _)
JRun(s, lo, hi, st) ==
  IF lo > hi THEN st
  ELSE IF lo = hi THEN JStep(st, s[lo])
  ELSE LET mid == (lo + hi) \div 2
           left == JRun(s, lo, mid, st)
       IN  IF Evaluated(left) THEN JRun(s, mid + 1, hi, left) ELSE left

\* The recogniser's state after the first n characters of s.
JAt(s, n) == JRun(s, 1, n, JInit)

\* Whether JSON.parse(s) returns (TRUE) or throws a SyntaxError (FALSE).
Parses(s) ==
  LET st == JAt(s, Len(s))
  IN  st.stack = <<>> /\ st.mode \in (NumberEnd \cup {"after"})

\* The value JSON.parse(s) returns, for a text that parses: its canonical text.
Decode(s) == JAt(s, Len(s)).out

(***************************************************************************)
(* simpleJsonRepair                                                        *)
(***************************************************************************)
\* Clip to the text from the first { to the last }, when both exist in
\* that order.
BoundaryTrim(s) ==
  LET startBrace == IndexOf(s, "{")
      lastBrace == LastIndexOf(s, "}")
  IN  IF startBrace # -1 /\ lastBrace # -1 /\ lastBrace > startBrace
        THEN Substring(s, startBrace, lastBrace + 1)
        ELSE s

RepairScanInit == [inString |-> FALSE, escapeNext |-> FALSE, result |-> <<>>]

\* The loop with an escape flag that is never cleared.
RepairScanStep_EscapeSticks(st, char) ==
  IF st.escapeNext
    THEN [st EXCEPT !.result = Append(@, char)]
  ELSE IF char = BSLASH
    THEN [st EXCEPT !.escapeNext = TRUE, !.result = Append(@, char)]
  ELSE IF char = QUOTE
    THEN [st EXCEPT !.inString = ~@, !.result = Append(@, char)]
  ELSE [st EXCEPT !.result = Append(@, char)]

\* One iteration of the character loop of simpleJsonRepair.
RepairScanStep(st, char) ==
  IF st.escapeNext
    THEN [st EXCEPT !.result = Append(@, char), !.escapeNext = FALSE]
  ELSE IF char = BSLASH
    THEN [st EXCEPT !.escapeNext = TRUE, !.result = Append(@, char)]
  ELSE IF char = QUOTE
    THEN [st EXCEPT !.inString = ~@, !.result = Append(@, char)]
  ELSE IF st.inString /\ char = NL
    THEN [st EXCEPT !.result = @ \o <<BSLASH, "n">>]
  ELSE IF st.inString /\ char = TAB
    THEN [st EXCEPT !.result = Append(@, " ")]
  ELSE IF st.inString /\ char = CR
    THEN st
  ELSE [st EXCEPT !.result = Append(@, char)]

\* The loop over the characters lo..hi of s (1-based), from state st.
RECURSIVE RepairScanRun(_, _, _, _)
RepairScanRun(s, lo, hi, st) ==
  IF lo > hi THEN st
  ELSE IF lo = hi THEN RepairScanStep(st, s[lo])
  ELSE LET mid == (lo + hi) \div 2
           left == RepairScanRun(s, lo, mid, st)
       IN  IF Evaluated(left) THEN RepairScanRun(s, mid + 1, hi, left) ELSE left

\* The loop's result.join('').
NormalizeControlChars(s) == RepairScanRun(s, 1, Len(s), RepairScanInit).result

\* Whether a match of /,(\s*[}\]])/ starts at the 1-based index i.
TrailingCommaAt(s, i) ==
  /\ s[i] = ","
  /\ LET j == SkipSpace(s, i + 1) IN j <= Len(s) /\ s[j] \in {"}", "]"}

\* The replacement's output for the characters lo..hi of s, after out.  A
\* match keeps its group $1 and loses its comma, and no two matches overlap.
RECURSIVE RemoveTrailingCommasRun(_, _, _, _)
RemoveTrailingCommasRun(s, lo, hi, out) ==
  IF lo > hi THEN out
  ELSE IF lo = hi THEN (IF TrailingCommaAt(s, lo) THEN out ELSE Append(out, s[lo]))
  ELSE LET mid == (lo + hi) \div 2
           left == RemoveTrailingCommasRun(s, lo, mid, out)
       IN  IF Evaluated(left) THEN RemoveTrailingCommasRun(s, mid + 1, hi, left) ELSE left

\* jsonStr.replace(/,(\s*[}\]])/g, '$1')
RemoveTrailingCommas(s) == RemoveTrailingCommasRun(s, 1, Len(s), <<>>)

\* (jsonStr.match(/"/g) || []).length
QuoteCount(s) == Cardinality({i \in 1..Len(s) : s[i] = QUOTE})

\* if (quoteCount % 2 !== 0) jsonStr += '"'
CloseOddQuote(s) == IF QuoteCount(s) % 2 # 0 THEN Append(s, QUOTE) ELSE s

\* The least element of a set of indices, or none when the set is empty.
MinOr(S, none) == IF S = {} THEN none ELSE CHOOSE x \in S : \A y \in S : x <= y

\* The 1-based index of the first quote at or after i (Len(s) + 1 if none).
NextQuote(s, i) == MinOr({j \in i..Len(s) : s[j] = QUOTE}, Len(s) + 1)

\* Where a match of /<close>(\s*)"([^"]+)":/ that starts at the 1-based
\* index i ends (the index of its colon), or 0 when there is no match at i.
KeyAfterCloserEnd(s, i, close) ==
  IF s[i] # close THEN 0
  ELSE LET q == SkipSpace(s, i + 1)
       IN  IF q > Len(s) \/ s[q] # QUOTE THEN 0
           ELSE LET r == NextQuote(s, q + 1)
                IN  IF r >= q + 2 /\ r + 1 <= Len(s) /\ s[r + 1] = ":" THEN r + 1 ELSE 0

\* One index of the replacement's left-to-right search: st.out is the output
\* so far and st.next the index the search for the next match resumes at.
InsertMissingCommasStep(st, s, i, close) ==
  LET e == IF i >= st.next THEN KeyAfterCloserEnd(s, i, close) ELSE 0
  IN  IF e # 0
        THEN [out |-> st.out \o <<close, ",">>, next |-> e + 1]
        ELSE [st EXCEPT !.out = Append(@, s[i])]

RECURSIVE InsertMissingCommasRun(_, _, _, _, _)
InsertMissingCommasRun(s, lo, hi, close, st) ==
  IF lo > hi THEN st
  ELSE IF lo = hi THEN InsertMissingCommasStep(st, s, lo, close)
  ELSE LET mid == (lo + hi) \div 2
           left == InsertMissingCommasRun(s, lo, mid, close, st)
       IN  IF Evaluated(left) THEN InsertMissingCommasRun(s, mid + 1, hi, close, left)
           ELSE left

\* jsonStr.replace(/<close>(\s*)"([^"]+)":/g, '<close>,$1"$2":')
InsertMissingCommas(s, close) ==
  InsertMissingCommasRun(s, 1, Len(s), close, [out |-> <<>>, next |-> 1]).out

SimpleJsonRepair(jsonStrArg) ==
  LET trimmed == BoundaryTrim(Trim(jsonStrArg))
      scanned == NormalizeControlChars(trimmed)
      noTrailing == RemoveTrailingCommas(scanned)
      closed == CloseOddQuote(noTrailing)
  IN  InsertMissingCommas(InsertMissingCommas(closed, "}"), "]")

(***************************************************************************)
(* extractJsonCandidates                                                   *)
(***************************************************************************)
ExtractInit ==
  [braceCount |-> 0, startPos |-> -1, inString |-> FALSE, escapeNext |-> FALSE,
   candidates |-> <<>>]

\* The loop with no regard for string literals.
ExtractStep_IgnoresStrings(st, s, i) ==
  LET char == s[i + 1]
  IN  IF char = "{"
        THEN [st EXCEPT !.startPos = IF st.braceCount = 0 THEN i ELSE @,
                        !.braceCount = @ + 1]
      ELSE IF char = "}"
        THEN IF st.braceCount - 1 = 0 /\ st.startPos # -1
               THEN [st EXCEPT !.braceCount = @ - 1,
                               !.candidates = Append(@, Substring(s, st.startPos, i + 1))]
               ELSE [st EXCEPT !.braceCount = @ - 1]
      ELSE st

\* The loop with a backslash that escapes inside string literals only.
ExtractStep_EscapeInStringOnly(st, s, i) ==
  LET char == s[i + 1]
  IN  IF st.escapeNext THEN [st EXCEPT !.escapeNext = FALSE]
      ELSE IF char = BSLASH /\ st.inString THEN [st EXCEPT !.escapeNext = TRUE]
      ELSE IF char = QUOTE THEN [st EXCEPT !.inString = ~@]
      ELSE IF st.inString \/ char \notin {"{", "}"} THEN st
      ELSE IF char = "{"
        THEN [st EXCEPT !.startPos = IF st.braceCount = 0 THEN i ELSE @,
                        !.braceCount = @ + 1]
      ELSE IF st.braceCount - 1 = 0 /\ st.startPos # -1
        THEN [st EXCEPT !.braceCount = @ - 1,
                        !.candidates = Append(@, Substring(s, st.startPos, i + 1))]
      ELSE [st EXCEPT !.braceCount = @ - 1]

\* One iteration of the character loop of extractJsonCandidates, at the
\* 0-based index i of s.
ExtractStep(st, s, i) ==
  LET char == s[i + 1]
  IN  IF st.escapeNext THEN [st EXCEPT !.escapeNext = FALSE]
      ELSE IF char = BSLASH THEN [st EXCEPT !.escapeNext = TRUE]
      ELSE IF char = QUOTE THEN [st EXCEPT !.inString = ~@]
      ELSE IF st.inString THEN st
      ELSE IF char = "{"
        THEN [st EXCEPT !.startPos = IF st.braceCount = 0 THEN i ELSE @,
                        !.braceCount = @ + 1]
      ELSE IF char = "}"
        THEN IF st.braceCount - 1 = 0 /\ st.startPos # -1
               THEN [st EXCEPT !.braceCount = @ - 1,
                               !.candidates = Append(@, Substring(s, st.startPos, i + 1))]
               ELSE [st EXCEPT !.braceCount = @ - 1]
      ELSE st

\* The loop over the 0-based indices lo..hi of s, from state st.
RECURSIVE ExtractRun(_, _, _, _)
ExtractRun(s, lo, hi, st) ==
  IF lo > hi THEN st
  ELSE IF lo = hi THEN ExtractStep(st, s, lo)
  ELSE LET mid == (lo + hi) \div 2
           left == ExtractRun(s, lo, mid, st)
       IN  IF Evaluated(left) THEN ExtractRun(s, mid + 1, hi, left) ELSE left

\* Insert c into a list sorted by non-increasing length, after every element
\* at least as long: Array.prototype.sort is stable.
RECURSIVE InsertByLength(_, _)
InsertByLength(sorted, c) ==
  IF sorted = <<>> THEN <<c>>
  ELSE IF Len(Head(sorted)) >= Len(c)
    THEN <<Head(sorted)>> \o InsertByLength(Tail(sorted), c)
    ELSE <<c>> \o sorted

\* candidates.sort((a, b) => b.length - a.length)
\* No sort: the candidates in the order found.
SortByLengthDesc_Unsorted(cands) == cands

RECURSIVE SortByLengthDesc(_)
SortByLengthDesc(cands) ==
  IF cands = <<>> THEN <<>>
  ELSE InsertByLength(SortByLengthDesc(SubSeq(cands, 1, Len(cands) - 1)), cands[Len(cands)])

ExtractJsonCandidates(jsonStrArg) ==
  SortByLengthDesc(ExtractRun(jsonStrArg, 0, Len(jsonStrArg) - 1, ExtractInit).candidates)

(***************************************************************************)
(* extremeJsonFallback                                                     *)
(***************************************************************************)
KeyTestFiles == <<QUOTE, "t", "e", "s", "t", "_", "f", "i", "l", "e", "s", QUOTE>>

KeyTestCases == <<QUOTE, "t", "e", "s", "t", "_", "c", "a", "s", "e", "s", QUOTE>>

\* The upper-case form of a letter of the two keys.
UpperOf(k) ==
  CASE k = "t" -> "T" [] k = "e" -> "E" [] k = "s" -> "S" [] k = "f" -> "F"
    [] k = "i" -> "I" [] k = "l" -> "L" [] k = "c" -> "C" [] k = "a" -> "A"
    [] OTHER -> k

\* The pattern's i flag: a key character matches in either case.
StartsAtIgnoreCase(s, i, pat) ==
  /\ i + Len(pat) - 1 <= Len(s)
  /\ \A k \in 1..Len(pat) : s[i + k - 1] = pat[k] \/ s[i + k - 1] = UpperOf(pat[k])

\* The 1-based index of the first ] at or after i (Len(s) + 1 if none).
NextCloseBracket(s, i) == MinOr({j \in i..Len(s) : s[j] = "]"}, Len(s) + 1)

\* Where a match of /<key>\s*:\s*\[[\s\S]*?\]/i that starts at the 1-based
\* index i ends, or 0 when there is no match at i.
KeyArrayEnd(s, i, key) ==
  IF ~StartsAtIgnoreCase(s, i, key) THEN 0
  ELSE LET c == SkipSpace(s, i + Len(key))
       IN  IF c > Len(s) \/ s[c] # ":" THEN 0
           ELSE LET b == SkipSpace(s, c + 1)
                IN  IF b > Len(s) \/ s[b] # "[" THEN 0
                    ELSE LET e == NextCloseBracket(s, b + 1)
                         IN  IF e <= Len(s) THEN e ELSE 0

\* jsonStr.match(/<key>\s*:\s*\[[\s\S]*?\]/i): the leftmost match's text
\* (element 0 of the match array), or <<>> for null.
KeyArrayMatch(s, key) ==
  LET starts == {i \in 1..Len(s) : KeyArrayEnd(s, i, key) # 0}
  IN  IF starts = {} THEN <<>>
      ELSE LET i == MinOr(starts, 0) IN SubSeq(s, i, KeyArrayEnd(s, i, key))

\* '{"test_files": []}'
EmptyEnvelope == <<"{">> \o KeyTestFiles \o <<":", " ", "[", "]", "}">>

\* `{"<key>": ${match[0]}}`
Envelope(key, matched) == <<"{">> \o key \o <<":", " ">> \o matched \o <<"}">>

\* A fallback whose default names the other key.
ExtremeJsonFallback_OtherDefault(jsonStrArg) ==
  LET testFilesMatch == KeyArrayMatch(jsonStrArg, KeyTestFiles)
      testCasesMatch == KeyArrayMatch(jsonStrArg, KeyTestCases)
  IN  IF testFilesMatch # <<>> THEN Envelope(KeyTestFiles, testFilesMatch)
      ELSE IF testCasesMatch # <<>> THEN Envelope(KeyTestCases, testCasesMatch)
      ELSE <<"{">> \o KeyTestCases \o <<":", " ", "[", "]", "}">>

ExtremeJsonFallback(jsonStrArg) ==
  LET testFilesMatch == KeyArrayMatch(jsonStrArg, KeyTestFiles)
      testCasesMatch == KeyArrayMatch(jsonStrArg, KeyTestCases)
  IN  IF testFilesMatch # <<>> THEN Envelope(KeyTestFiles, testFilesMatch)
      ELSE IF testCasesMatch # <<>> THEN Envelope(KeyTestCases, testCasesMatch)
      ELSE EmptyEnvelope

(***************************************************************************)
(* Input texts                                                             *)
(***************************************************************************)
\* {"a": [1, 2]}
DocTrailing ==
  <<"{", QUOTE, "a", QUOTE, ":", " ", "[", "1", ",", " ", "2", "]", "}">>

\* {"a": "hello"}
DocHello ==
  <<"{", QUOTE, "a", QUOTE, ":", " ", QUOTE, "h", "e", "l", "l", "o", QUOTE,
  "}">>

\* {"a": ",}"}
DocCommaBrace ==
  <<"{", QUOTE, "a", QUOTE, ":", " ", QUOTE, ",", "}", QUOTE, "}">>

\* {"test_files": [], "a": "hello"}
DocFilesHello ==
  <<"{", QUOTE, "t", "e", "s", "t", "_", "f", "i", "l", "e", "s", QUOTE,
  ":", " ", "[", "]", ",", " ", QUOTE, "a", QUOTE, ":", " ", QUOTE, "h",
  "e", "l", "l", "o", QUOTE, "}">>

\* {"a":{"b":1},"c":2}
DocNested ==
  <<"{", QUOTE, "a", QUOTE, ":", "{", QUOTE, "b", QUOTE, ":", "1", "}", ",",
  QUOTE, "c", QUOTE, ":", "2", "}">>

\* {"a":"}{","b":"{"}
DocBraceString ==
  <<"{", QUOTE, "a", QUOTE, ":", QUOTE, "}", "{", QUOTE, ",", QUOTE, "b",
  QUOTE, ":", QUOTE, "{", QUOTE, "}">>

\* [{"id":"TC-1"}]
DocArray ==
  <<"[", "{", QUOTE, "i", "d", QUOTE, ":", QUOTE, "T", "C", "-", "1", QUOTE,
  "}", "]">>

\* {"a":"\"}\\"}
DocEscapes ==
  <<"{", QUOTE, "a", QUOTE, ":", QUOTE, BSLASH, QUOTE, "}", BSLASH, BSLASH, QUOTE,
  "}">>

Docs ==
  {DocTrailing, DocHello, DocCommaBrace, DocFilesHello, DocNested, DocBraceString,
   DocEscapes, DocArray}

\* The longest short text, in tokens.
MaxLen == 3

\* The longest junk around an embedded fragment, in characters.
MaxJunk == 1

Tokens ==
  {<<"{">>, <<"}">>, <<"[">>, <<"]">>, <<QUOTE>>, <<",">>, <<":">>, <<" ">>, <<"a">>,
   <<"1">>, <<BSLASH>>, <<NL>>, KeyTestFiles, KeyTestCases}

RECURSIVE Flatten(_)
Flatten(ss) == IF ss = <<>> THEN <<>> ELSE Head(ss) \o Flatten(Tail(ss))

\* Every text of at most MaxLen tokens.
ShortTexts == {Flatten(t) : t \in UNION {[1..n -> Tokens] : n \in 0..MaxLen}}

\* The characters a damaged response gains.
EditChars == {",", QUOTE, "}", "]", NL, TAB, CR, " "}

\* A document with one defect: cut short, one character lost, or one gained.
Edits(doc) ==
  {SubSeq(doc, 1, n) : n \in 0..Len(doc)}
    \cup {SubSeq(doc, 1, n - 1) \o SubSeq(doc, n + 1, Len(doc)) : n \in 1..Len(doc)}
    \cup {SubSeq(doc, 1, n) \o <<c>> \o SubSeq(doc, n + 1, Len(doc)) :
            n \in 0..Len(doc), c \in EditChars}

DamagedDocs == UNION {Edits(doc) : doc \in Docs}

JunkChars == {"{", "}", "[", "]", QUOTE, "x", " "}

Junk == UNION {[1..n -> JunkChars] : n \in 0..MaxJunk}

\* [{"id":"TC-1"}], [1] and [2] under the two keys the fallback knows.
CasesFragment == KeyTestCases \o <<":", " ">> \o DocArray

FilesOne == KeyTestFiles \o <<":", " ", "[", "1", "]">>

CasesTwo == KeyTestCases \o <<":", " ", "[", "2", "]">>

Fragments ==
  {CasesFragment, FilesOne, CasesTwo, FilesOne \o <<",", " ">> \o CasesTwo,
   CasesTwo \o <<",", " ">> \o FilesOne}

\* A fragment with a known key, embedded in junk.
EmbeddedFragments == {a \o f \o b : a \in Junk, f \in Fragments, b \in Junk}

Objects ==
  {<<"{", "}">>, <<"{", QUOTE, "a", QUOTE, ":", "1", "}">>,
   <<"{", QUOTE, "a", QUOTE, ":", "{", "}", "}">>}

Separators == {<<>>, <<" ">>, <<",">>, <<NL>>}

\* What stands before and after a pair of objects: nothing or one character.
Edges == {<<>>} \cup {<<c>> : c \in JunkChars}

\* Two objects side by side, between two edges.
ObjectPairs ==
  {a \o o1 \o sep \o o2 \o b :
     a \in Edges, o1 \in Objects, sep \in Separators, o2 \in Objects, b \in Edges}

\* The modes in which the recogniser is inside a string literal.
StringModes == {"str", "stresc", "hex"}

\* Whether the 1-based index i of a valid text lies outside every string
\* literal, by the JSON grammar.
Structural(doc, i) == JAt(doc, i - 1).mode \notin StringModes

ObjectDocs == {d \in Docs : Head(d) = "{"}

\* doc with a comma, or a comma and a space, put directly before one
\* structural ] or }.
TrailingCommas(doc) ==
  {SubSeq(doc, 1, n - 1) \o <<",">> \o ws \o SubSeq(doc, n, Len(doc)) :
     n \in {i \in 1..Len(doc) : doc[i] \in {"}", "]"} /\ Structural(doc, i)},
     ws \in {<<>>, <<" ">>}}

\* doc cut inside a string value: the closing quote and all that follows
\* are missing.
UnterminatedCuts(doc) ==
  {SubSeq(doc, 1, n) : n \in {i \in 1..(Len(doc) - 1) :
     LET st == JAt(doc, i) IN st.mode = "str" /\ ~st.key}}

TrailingCommaTexts == UNION {TrailingCommas(doc) : doc \in ObjectDocs}

\* An object with a trailing comma, followed by a stray closing brace.
StrayBraceTexts == {t \o <<"}">> : t \in TrailingCommaTexts}

\* Balanced objects that do not parse: {a} and {"a":1,}
BrokenObjects ==
  {<<"{", "a", "}">>, <<"{", QUOTE, "a", QUOTE, ":", "1", ",", "}">>}

\* Two objects side by side, parsing or not.
MixedPairs ==
  {o1 \o sep \o o2 :
     o1 \in Objects \cup BrokenObjects, sep \in Separators,
     o2 \in Objects \cup BrokenObjects}

Inputs ==
  ShortTexts \cup Docs \cup DamagedDocs \cup TrailingCommaTexts \cup EmbeddedFragments
    \cup ObjectPairs \cup StrayBraceTexts \cup MixedPairs

(***************************************************************************)
(* State                                                                   *)
(***************************************************************************)
VARIABLES
  raw,         \* the LLM response a caller starts from
  jsonStr,     \* the text to decode
  pc,          \* where the call is
  repaired,    \* fixJsonString's local of that name
  candidates,  \* the candidate list (fixJsonString's local; extractJsonCandidates' result)
  ci,          \* the candidate the for loop of fixJsonString is at (1-based)
  result,      \* the string fixJsonString returned (<<>>: none yet)
  data,        \* the value JSON.parse returned (<<>>: none yet)
  testCases,   \* generateTestCases' local of that name (<<>>: none yet)
  stages,      \* the stages of fixJsonString that have run
  scan,        \* the locals of extractJsonCandidates' loop
  si,          \* the loop index i of extractJsonCandidates (0-based)
  other,       \* the locals of a second invocation of fixJsonString
  progress,    \* the messages given to onProgress, in order
  caller       \* the method that is running ("none": fixJsonString on its own)

fixVars == <<repaired, candidates, ci, result, stages>>

callerVars == <<raw, testCases, progress, caller>>

scanVars == <<scan, si>>

vars ==
  <<raw, jsonStr, pc, repaired, candidates, ci, result, data, testCases, stages, scan, si,
    other, progress, caller>>

\* The locals of an invocation of fixJsonString on the text s, at its entry.
NewCall(s) ==
  [jsonStr |-> s, pc |-> "repair", repaired |-> <<>>, candidates |-> <<>>, ci |-> 1,
   result |-> <<>>]

\* No second invocation.
NoCall == [NewCall(<<>>) EXCEPT !.pc = "none"]

\* The locals before a call.
Idle ==
  /\ repaired = <<>>
  /\ candidates = <<>>
  /\ ci = 1
  /\ result = <<>>
  /\ data = <<>>
  /\ testCases = <<>>
  /\ stages = <<>>
  /\ scan = ExtractInit
  /\ si = 0
  /\ other = NoCall

(***************************************************************************)
(* fixJsonString, stage by stage                                           *)
(***************************************************************************)
\* A first stage that goes on to the scan whether its text parses or not.
Repair_NeverReturns ==
  /\ pc = "repair"
  /\ repaired' = SimpleJsonRepair(jsonStr)
  /\ stages' = Append(stages, "repair")
  /\ result' = result
  /\ pc' = "scan"
  /\ UNCHANGED <<jsonStr, candidates, ci, data, callerVars, scanVars, other>>

\* let repaired = this.simpleJsonRepair(jsonStr); try { JSON.parse(repaired); return repaired }
Repair ==
  /\ pc = "repair"
  /\ repaired' = SimpleJsonRepair(jsonStr)
  /\ stages' = Append(stages, "repair")
  /\ IF Parses(repaired')
       THEN /\ result' = repaired'
            /\ pc' = "returned"
       ELSE /\ result' = result
            /\ pc' = "scan"
  /\ UNCHANGED <<jsonStr, candidates, ci, data, callerVars, scanVars, other>>

\* const candidates = this.extractJsonCandidates(jsonStr)
Scan ==
  /\ pc = "scan"
  /\ candidates' = ExtractJsonCandidates(jsonStr)
  /\ ci' = 1
  /\ stages' = Append(stages, "scan")
  /\ pc' = "candidates"
  /\ UNCHANGED <<jsonStr, repaired, result, data, callerVars, scanVars, other>>

\* One iteration of for (const candidate of candidates).
TryCandidate ==
  /\ pc = "candidates"
  /\ ci <= Len(candidates)
  /\ IF Parses(candidates[ci])
       THEN /\ result' = candidates[ci]
            /\ pc' = "returned"
            /\ ci' = ci
       ELSE /\ result' = result
            /\ pc' = pc
            /\ ci' = ci + 1
  /\ UNCHANGED <<jsonStr, repaired, candidates, data, stages, callerVars, scanVars, other>>

\* return this.extremeJsonFallback(jsonStr), once the loop has run out
Fallback ==
  /\ pc = "candidates"
  /\ ci > Len(candidates)
  /\ result' = ExtremeJsonFallback(jsonStr)
  /\ stages' = Append(stages, "fallback")
  /\ pc' = "returned"
  /\ UNCHANGED <<jsonStr, repaired, candidates, ci, data, callerVars, scanVars, other>>

FixJsonStringNext == Repair \/ Scan \/ TryCandidate \/ Fallback

(***************************************************************************)
(* repair_and_parse: JSON.parse, fixJsonString when it throws, JSON.parse  *)
(* of what fixJsonString returns (generateAutotests, lines 661-668).       *)
(***************************************************************************)
Init ==
  /\ Idle
  /\ raw = <<>>
  /\ progress = <<>>
  /\ caller = "generateAutotests"
  /\ jsonStr \in Inputs
  /\ pc = "parse"

\* A caller that repairs before it tries the text as it is.
DirectParse_AlwaysRepairs ==
  /\ pc = "parse"
  /\ pc' = "repair"
  /\ UNCHANGED <<jsonStr, data, fixVars, callerVars, scanVars, other>>

\* try { data = JSON.parse(jsonStr) } catch { jsonStr = this.fixJsonString(jsonStr) ... }
DirectParse ==
  /\ pc = "parse"
  /\ IF Parses(jsonStr)
       THEN /\ data' = Decode(jsonStr)
            /\ pc' = "done"
       ELSE /\ data' = data
            /\ pc' = "repair"
  /\ UNCHANGED <<jsonStr, fixVars, callerVars, scanVars, other>>

\* data = JSON.parse(jsonStr), on the string fixJsonString returned
ReParse ==
  /\ caller = "generateAutotests"
  /\ pc = "returned"
  /\ IF Parses(result)
       THEN /\ data' = Decode(result)
            /\ pc' = "done"
       ELSE /\ data' = data
            /\ pc' = "threw"
  /\ UNCHANGED <<jsonStr, fixVars, callerVars, scanVars, other>>

Next == DirectParse \/ FixJsonStringNext \/ ReParse

Spec == Init /\ [][Next]_vars

(***************************************************************************)
(* Properties of repair_and_parse and fixJsonString                        *)
(***************************************************************************)
\* fixJsonString has returned the fallback's string.
FromFallback == pc = "returned" /\ stages = <<"repair", "scan", "fallback">>

\* C1: for every input text, fixJsonString followed by the caller's
\* JSON.parse ends with a decoded value and never throws; every string the
\* fallback returns parses.
C1_Totality ==
  /\ pc # "threw"
  /\ FromFallback => Parses(result)

\* {"test_files": [] ends with the caller's JSON.parse throwing on
\* {"test_files": "test_files": []}.
C1_Thrown ==
  /\ pc = "threw"
  /\ jsonStr = SubSeq(DocFilesHello, 1, 17)
  /\ result = Envelope(KeyTestFiles, SubSeq(DocFilesHello, 2, 17))

\* The junk around a fragment is unbalanced: its brackets or quotes do not pair.
Count(s, c) == Cardinality({i \in 1..Len(s) : s[i] = c})

Unbalanced(junk) ==
  \/ Count(junk, "{") # Count(junk, "}")
  \/ Count(junk, "[") # Count(junk, "]")
  \/ Count(junk, QUOTE) % 2 # 0

\* {"test_cases":[{"id":"TC-1"}]}
CasesEnvelopeValue == <<"{">> \o KeyTestCases \o <<":">> \o DocArray \o <<"}">>

\* C2: when "test_cases": [{"id":"TC-1"}] is embedded in unbalanced junk,
\* the string fixJsonString returns decodes to the object whose test_cases
\* key holds exactly that array.
C2_EnvelopeExactness ==
  pc = "returned" =>
    \A a, b \in Junk :
      (jsonStr = a \o CasesFragment \o b /\ Unbalanced(a \o b))
        => (Parses(result) /\ Decode(result) = CasesEnvelopeValue)

\* {"test_cases": [{"id":"TC-1"}] comes back as
\* {"test_cases": "test_cases": [{"id":"TC-1"}]}, which does not parse.
C2_KeyTwice ==
  /\ FromFallback
  /\ jsonStr = <<"{">> \o CasesFragment
  /\ result = Envelope(KeyTestCases, CasesFragment)
  /\ ~Parses(result)

\* The first character of s that is not white space ("" when there is none).
FirstChar(s) == IF Trim(s) = <<>> THEN "" ELSE Head(Trim(s))

\* C3: for a text that already is a valid JSON object or array the call
\* ends with exactly the value JSON.parse gives for the text, and no stage
\* of fixJsonString runs.
C3_DirectSuccess ==
  (Parses(jsonStr) /\ FirstChar(jsonStr) \in {"{", "["})
    => /\ stages = <<>>
       /\ pc \in {"parse", "done"}
       /\ pc = "done" => data = Decode(jsonStr)

C3_Witness ==
  /\ pc = "done"
  /\ jsonStr = DocNested
  /\ stages = <<>>
  /\ data = Decode(DocNested)

\* C4: for a text with two disjoint balanced top-level objects of different
\* length that both parse, fixJsonString returns the longer one's text.
C4_LongestCandidate ==
  pc = "returned" =>
    \A a, b \in Edges : \A o1, o2 \in Objects : \A sep \in Separators :
      (/\ jsonStr = a \o o1 \o sep \o o2 \o b
       /\ Count(a, "{") = 0 /\ Count(a \o b, QUOTE) = 0
       /\ Len(o1) # Len(o2))
        => result = IF Len(o1) > Len(o2) THEN o1 ELSE o2

\* }{}{"a":1} comes back as the empty envelope: after the leading } the
\* counter is negative and no candidate is found.
C4_NoCandidate ==
  /\ pc = "returned"
  /\ jsonStr = <<"}", "{", "}", "{", QUOTE, "a", QUOTE, ":", "1", "}">>
  /\ candidates = <<>>
  /\ result = EmptyEnvelope

\* C5: for a valid object text with a comma (and optional white space) put
\* directly before a structural ] or }, fixJsonString returns text that
\* parses to the value of the original text.
C5_TrailingComma ==
  pc = "returned" =>
    \A doc \in ObjectDocs :
      jsonStr \in TrailingCommas(doc) => (Parses(result) /\ Decode(result) = Decode(doc))

\* {"a": ",}",} comes back as {"a": "}"}: the comma inside the string is
\* gone too.
C5_CommaInString ==
  /\ pc = "returned"
  /\ jsonStr = SubSeq(DocCommaBrace, 1, 10) \o <<",", "}">>
  /\ result = SubSeq(DocCommaBrace, 1, 7) \o SubSeq(DocCommaBrace, 9, 11)
  /\ Decode(result) # Decode(DocCommaBrace)

\* C8: for an input that ends inside a string literal, closing quote and
\* closing brace missing, fixJsonString returns text that parses or the
\* empty envelope.
C8_UnterminatedQuote ==
  pc = "returned" =>
    \A doc \in ObjectDocs :
      jsonStr \in UnterminatedCuts(doc) => (Parses(result) \/ result = EmptyEnvelope)

\* {"test_files": [], "a": "hello comes back as the test_files envelope with
\* the key twice, which neither parses nor is the empty envelope.
C8_KeyTwice ==
  /\ pc = "returned"
  /\ jsonStr = SubSeq(DocFilesHello, 1, 30)
  /\ result = Envelope(KeyTestFiles, SubSeq(DocFilesHello, 2, 17))
  /\ ~Parses(result)

\* No candidate of the list parses.
NoCandidateParses(cands) == \A k \in 1..Len(cands) : ~Parses(cands[k])

\* {"test_files":[]}
EmptyEnvelopeValue == <<"{">> \o KeyTestFiles \o <<":", "[", "]", "}">>

\* C9: when the repaired text does not parse, no candidate parses and neither
\* key pattern matches the text, fixJsonString returns the empty envelope,
\* an object whose single key maps to an empty array.
C9_EmptyEnvelope ==
  (/\ pc = "returned"
   /\ ~Parses(SimpleJsonRepair(jsonStr))
   /\ NoCandidateParses(ExtractJsonCandidates(jsonStr))
   /\ KeyArrayMatch(jsonStr, KeyTestFiles) = <<>>
   /\ KeyArrayMatch(jsonStr, KeyTestCases) = <<>>)
    => /\ result = EmptyEnvelope
       /\ Parses(result)
       /\ Decode(result) = EmptyEnvelopeValue

C9_Witness ==
  /\ FromFallback
  /\ jsonStr = SubSeq(DocHello, 1, 12)
  /\ result = EmptyEnvelope

\* {"test_files":[1]}
FilesOneValue == <<"{">> \o KeyTestFiles \o <<":", "[", "1", "]", "}">>

\* C10: when the fallback is reached and both key patterns match, the
\* envelope is built from test_files, whichever key comes first in the
\* text, and has exactly that one key.
C10_KeyPriority ==
  (/\ FromFallback
   /\ KeyArrayMatch(jsonStr, KeyTestFiles) = FilesOne
   /\ KeyArrayMatch(jsonStr, KeyTestCases) = CasesTwo)
    => (Parses(result) /\ Decode(result) = FilesOneValue)

\* "test_cases": [2], "test_files": [1] comes back as
\* {"test_files": "test_files": [1]}: built from test_files, and no object.
C10_KeyTwice ==
  /\ FromFallback
  /\ jsonStr = CasesTwo \o <<",", " ">> \o FilesOne
  /\ result = Envelope(KeyTestFiles, FilesOne)
  /\ ~Parses(result)

(***************************************************************************)
(* extractJsonCandidates, character by character                           *)
(***************************************************************************)
ScanInputs == ShortTexts \cup Docs \cup DamagedDocs

InitScan ==
  /\ Idle
  /\ raw = <<>>
  /\ progress = <<>>
  /\ caller = "none"
  /\ jsonStr \in ScanInputs
  /\ pc = "scanning"

\* A loop whose continue statements skip the increment of i.
ScanChar_ContinueSkipsIncrement ==
  /\ pc = "scanning"
  /\ si < Len(jsonStr)
  /\ scan' = ExtractStep(scan, jsonStr, si)
  /\ si' = IF scan.escapeNext \/ jsonStr[si + 1] \in {BSLASH, QUOTE} THEN si ELSE si + 1
  /\ UNCHANGED <<jsonStr, pc, data, fixVars, callerVars, other>>

\* One iteration of for (let i = 0; i < jsonStr.length; i++).
ScanChar ==
  /\ pc = "scanning"
  /\ si < Len(jsonStr)
  /\ scan' = ExtractStep(scan, jsonStr, si)
  /\ si' = si + 1
  /\ UNCHANGED <<jsonStr, pc, data, fixVars, callerVars, other>>

\* return candidates.sort((a, b) => b.length - a.length)
ScanReturn ==
  /\ pc = "scanning"
  /\ si >= Len(jsonStr)
  /\ candidates' = SortByLengthDesc(scan.candidates)
  /\ pc' = "scanned"
  /\ UNCHANGED <<jsonStr, data, repaired, ci, result, stages, callerVars, scanVars, other>>

NextScan == ScanChar \/ ScanReturn

SpecScan == InitScan /\ [][NextScan]_vars

\* The number of objects open in a stack of the recogniser.
ObjectDepth(stack) == Cardinality({k \in 1..Len(stack) : stack[k] = "o"})

\* C7: braces inside a string literal never change the depth counter: on a
\* valid object text the counter is the number of objects the JSON grammar
\* has open, and the only candidate returned is the whole object.
C7_StringImmunity ==
  (Parses(jsonStr) /\ FirstChar(jsonStr) = "{")
    => /\ pc = "scanning" =>
            /\ scan.braceCount = ObjectDepth(JAt(jsonStr, si).stack)
            /\ scan.inString = (JAt(jsonStr, si).mode \in StringModes)
       /\ pc = "scanned" => candidates = <<Trim(jsonStr)>>

C7_Witness ==
  /\ pc = "scanned"
  /\ jsonStr = DocBraceString
  /\ candidates = <<DocBraceString>>

(***************************************************************************)
(* generateTestCases on the local-LLM path: extraction, JSON.parse,        *)
(* fixJsonString on failure, the shape check.                              *)
(***************************************************************************)
\* The messages onProgress is given.  Ready stands for the Russian word of
\* the final message, and an error message for the message of the Error
\* that was thrown.
Generating == <<"Generating...">>

Debug(response) == <<"DEBUG: LLM Response:", response>>

Ready == <<"Ready!">>

ErrorMessage(message) == <<"Error: ", message>>

\* raw1.match(/\[[\s\S]*\]/): from the first [ to the last ], or <<>> for null.
ArrayMatch(s) ==
  LET first == IndexOf(s, "[")
      last == LastIndexOf(s, "]")
  IN  IF first # -1 /\ last > first THEN Substring(s, first, last + 1) ELSE <<>>

\* '{ "test_cases": '
CasesOpen == <<"{", " ">> \o KeyTestCases \o <<":", " ">>

\* jsonStr.replace('[', '{ "test_cases": ').replace(']', ' }')
WrapAsEnvelope(s) == ReplaceFirst(ReplaceFirst(s, "[", CasesOpen), "]", <<" ", "}">>)

\* The value undefined.
Undefined == <<"undefined">>

TopCommasInit == [depth |-> 0, inStr |-> FALSE, esc |-> FALSE, found |-> {}]

\* One character of a canonical text v: st.found gains the index of a comma
\* that separates two members of the outermost container.
TopCommasStep(st, v, i) ==
  IF st.esc THEN [st EXCEPT !.esc = FALSE]
  ELSE IF st.inStr /\ v[i] = BSLASH THEN [st EXCEPT !.esc = TRUE]
  ELSE IF v[i] = QUOTE THEN [st EXCEPT !.inStr = ~@]
  ELSE IF st.inStr THEN st
  ELSE IF v[i] \in {"{", "["} THEN [st EXCEPT !.depth = @ + 1]
  ELSE IF v[i] \in {"}", "]"} THEN [st EXCEPT !.depth = @ - 1]
  ELSE IF v[i] = "," /\ st.depth = 1 THEN [st EXCEPT !.found = @ \cup {i}]
  ELSE st

RECURSIVE TopCommasRun(_, _, _, _)
TopCommasRun(v, lo, hi, st) ==
  IF lo > hi THEN st
  ELSE IF lo = hi THEN TopCommasStep(st, v, lo)
  ELSE LET mid == (lo + hi) \div 2
           left == TopCommasRun(v, lo, mid, st)
       IN  IF Evaluated(left) THEN TopCommasRun(v, mid + 1, hi, left) ELSE left

\* The indices of the commas between the members of v's outermost container.
TopCommas(v) == TopCommasRun(v, 1, Len(v), TopCommasInit).found

\* value.<key> for a decoded value: the member's value (the last one of that
\* name), undefined when the value is no object or has no such member.
Member(v, key) ==
  IF v = <<>> \/ Head(v) # "{" THEN Undefined
  ELSE LET commas == TopCommas(v)
           starts == {2} \cup {c + 1 : c \in commas}
           hits == {p \in starts : StartsAt(v, p, key \o <<":">>)}
       IN  IF hits = {} THEN Undefined
           ELSE LET p == CHOOSE x \in hits : \A y \in hits : y <= x
                    e == MinOr({c \in commas : c > p}, Len(v))
                IN  SubSeq(v, p + Len(key) + 1, e - 1)

\* Array.isArray(value)
IsArray(v) == v # <<>> /\ Head(v) = "["

\* Stands for the backquote U+0060, which a TLA+ string cannot hold; for the
\* code it is a character like any other.
TICK == "~"

\* The marker that opens a fenced block, and the one that closes it.
FenceOpen == <<TICK, TICK, TICK, "j", "s", "o", "n", NL>>

FenceClose == <<NL, TICK, TICK, TICK>>

\* Explanatory prose before and after the fenced block.
Proses ==
  {<<>>, <<"H", "e", "r", "e", ":", " ">>, <<" ", "D", "o", "n", "e", ".">>,
   <<"s", "e", "e", " ", "[", "1", "]", " ">>,
   <<" ", "a", "]">>, <<" ", "[", "b">>}

Arrays ==
  {DocArray, <<"[", "1", ",", " ", "2", "]">>, <<"[", "]">>, <<"[", "[", "1", "]", "]">>}

\* Prose, a fence marker, an array, the closing fence marker, prose.
Fenced(p1, arr, p2) == p1 \o FenceOpen \o arr \o FenceClose \o p2

\* arr with a comma, or a comma and a space, before its final ].
TrailingCommaArrays(arr) ==
  {SubSeq(arr, 1, Len(arr) - 1) \o <<",">> \o ws \o <<"]">> : ws \in {<<>>, <<" ">>}}

Responses ==
  {Fenced(p1, arr, p2) : p1 \in Proses, arr \in Arrays, p2 \in Proses}
    \cup Edits(DocArray) \cup ShortTexts
    \cup UNION {TrailingCommaArrays(arr) : arr \in Arrays}

InitTestCases ==
  /\ Idle
  /\ raw \in Responses
  /\ progress = <<Generating>>
  /\ caller = "generateTestCases"
  /\ jsonStr = <<>>
  /\ pc = "extract"

\* const jsonMatch = raw1.match(/\[[\s\S]*\]/); if (!jsonMatch) throw ...
ExtractArray ==
  /\ caller = "generateTestCases"
  /\ pc = "extract"
  /\ LET jsonMatch == ArrayMatch(Trim(raw))
     IN  IF jsonMatch = <<>>
           THEN /\ pc' = "rejected"
                /\ jsonStr' = jsonStr
                /\ progress' = Append(progress, ErrorMessage("no JSON array"))
           ELSE /\ pc' = "parseArray"
                /\ jsonStr' = jsonMatch
                /\ progress' = progress
  /\ UNCHANGED <<raw, testCases, caller, data, fixVars, scanVars, other>>

\* try { testCases = JSON.parse(jsonStr) } catch { jsonStr = this.fixJsonString(...) }
ParseArray ==
  /\ pc = "parseArray"
  /\ IF Parses(jsonStr)
       THEN /\ testCases' = Decode(jsonStr)
            /\ pc' = "check"
            /\ jsonStr' = jsonStr
       ELSE /\ testCases' = testCases
            /\ pc' = "repair"
            /\ jsonStr' = WrapAsEnvelope(jsonStr)
  /\ UNCHANGED <<raw, progress, caller, data, fixVars, scanVars, other>>

\* const data = JSON.parse(jsonStr); testCases = data.test_cases
ReadTestCases ==
  /\ caller = "generateTestCases"
  /\ pc = "returned"
  /\ IF Parses(result) /\ Decode(result) # <<"n", "u", "l", "l">>
       THEN /\ data' = Decode(result)
            /\ testCases' = Member(Decode(result), KeyTestCases)
            /\ pc' = "check"
            /\ progress' = progress
       ELSE /\ data' = data
            /\ testCases' = testCases
            /\ pc' = "rejected"
            /\ progress' =
                 Append(progress,
                        ErrorMessage(IF Parses(result) THEN "TypeError" ELSE "SyntaxError"))
  /\ UNCHANGED <<raw, caller, jsonStr, fixVars, scanVars, other>>

\* if (!Array.isArray(testCases)) throw ...; return { testCases, markdown: '' }
CheckTestCases ==
  /\ pc = "check"
  /\ IF IsArray(testCases)
       THEN /\ progress' = Append(progress, Ready)
            /\ pc' = "resolved"
       ELSE /\ progress' = Append(progress, ErrorMessage("bad test cases"))
            /\ pc' = "rejected"
  /\ UNCHANGED <<raw, testCases, caller, jsonStr, data, fixVars, scanVars, other>>

NextTestCases ==
  ExtractArray \/ ParseArray \/ FixJsonStringNext \/ ReadTestCases \/ CheckTestCases

SpecTestCases == InitTestCases /\ [][NextTestCases]_vars

\* C6: for a response made of prose, a fence marker, a valid JSON array, the
\* closing fence marker and prose, the test-case path yields exactly that
\* array.
C6_FencedArray ==
  pc \in {"resolved", "rejected"} =>
    \A p1, p2 \in Proses : \A arr \in Arrays :
      raw = Fenced(p1, arr, p2) => (pc = "resolved" /\ testCases = Decode(arr))

\* With the prose "see [1] " before the fence the match starts at the
\* prose's [ and the call ends with an error.
C6_BracketInProse ==
  /\ pc = "rejected"
  /\ raw = Fenced(<<"s", "e", "e", " ", "[", "1", "]", " ">>, DocArray, <<>>)
  /\ stages # <<>>

(***************************************************************************)
(* The order of the stages of fixJsonString                                *)
(***************************************************************************)
StageOrder == <<"repair", "scan", "fallback">>

\* The stages that have run are the first ones of the order; the scan ran
\* only after the repaired text failed to parse, the fallback only after
\* every candidate failed.
StagesEscalate ==
  /\ Len(stages) <= Len(StageOrder)
  /\ stages = SubSeq(StageOrder, 1, Len(stages))
  /\ Len(stages) >= 2 => ~Parses(repaired)
  /\ Len(stages) = 3 => (ci > Len(candidates) /\ NoCandidateParses(candidates))

\* A step runs at most the next stage of the order, and none once
\* fixJsonString has returned.
StageStep ==
  /\ stages' # stages => stages' = Append(stages, StageOrder[Len(stages) + 1])
  /\ pc \in {"returned", "done", "threw"} => stages' = stages
  /\ (pc' = "returned" /\ pc # "returned" /\ Len(stages') < 3) => Parses(result')

\* C11: the stages run strictly in the order repair, candidate scan,
\* fallback; a later stage starts only after the one before failed to give
\* text that parses, and once a stage has given such text no other stage runs.
C11_StageOrder == [](StagesEscalate) /\ [][StageStep]_vars

\* {a}: the repaired text and the one candidate fail, the fallback runs.
C11_Witness ==
  /\ pc = "done"
  /\ jsonStr = <<"{", "a", "}">>
  /\ stages = StageOrder
  /\ candidates = <<jsonStr>>

\* C12: every string fixJsonString returns has been accepted by JSON.parse,
\* whichever stage produced it.
C12_Revalidated == pc = "returned" => Parses(result)

\* "test_files": [1]: the fallback's string is returned as built, and
\* JSON.parse rejects it.
C12_Unvalidated ==
  /\ FromFallback
  /\ jsonStr = FilesOne
  /\ result = Envelope(KeyTestFiles, FilesOne)
  /\ ~Parses(result)

\* The first candidate, in the order tried, that parses as found or after
\* the fix sequence (0 when there is none).
FirstUsable(cands) ==
  MinOr({k \in 1..Len(cands) :
           Parses(cands[k]) \/ Parses(SimpleJsonRepair(cands[k]))}, 0)

\* C13: when the repaired whole text does not parse, a candidate that does
\* not parse as found but parses after the fix sequence is returned in its
\* repaired form, not skipped.
C13_CandidateRepair ==
  (pc = "returned" /\ Len(stages) >= 2) =>
    LET k == FirstUsable(candidates)
    IN  (k # 0 /\ ~Parses(candidates[k])) => result = SimpleJsonRepair(candidates[k])

\* {"a": [1, 2,]}}: the candidate {"a": [1, 2,]} parses once repaired, is
\* tried as found, fails, and the empty envelope is returned.
C13_Skipped ==
  /\ pc = "returned"
  /\ jsonStr = SubSeq(DocTrailing, 1, 11) \o <<",", "]", "}", "}">>
  /\ candidates = <<SubSeq(jsonStr, 1, Len(jsonStr) - 1)>>
  /\ SimpleJsonRepair(candidates[1]) = DocTrailing
  /\ result = EmptyEnvelope

(***************************************************************************)
(* The balanced object spans of a text, by a scan that keeps the open      *)
(* braces on a stack and passes over a closing brace that matches none     *)
(***************************************************************************)
SpanInit == [open |-> <<>>, inString |-> FALSE, escapeNext |-> FALSE, spans |-> {}]

\* One character (1-based index i): a } outside a string closes the last
\* open {, and the span is top-level when no { stays open around it.
SpanStep(st, s, i) ==
  LET char == s[i]
  IN  IF st.escapeNext THEN [st EXCEPT !.escapeNext = FALSE]
      ELSE IF char = BSLASH THEN [st EXCEPT !.escapeNext = TRUE]
      ELSE IF char = QUOTE THEN [st EXCEPT !.inString = ~@]
      ELSE IF st.inString THEN st
      ELSE IF char = "{" THEN [st EXCEPT !.open = Append(@, i)]
      ELSE IF char = "}" /\ st.open # <<>>
        THEN [st EXCEPT !.open = SubSeq(@, 1, Len(@) - 1),
                        !.spans = @ \cup {[from |-> st.open[Len(st.open)], to |-> i,
                                           top |-> Len(st.open) = 1]}]
      ELSE st

RECURSIVE SpanRun(_, _, _, _)
SpanRun(s, lo, hi, st) ==
  IF lo > hi THEN st
  ELSE IF lo = hi THEN SpanStep(st, s, lo)
  ELSE LET mid == (lo + hi) \div 2
           left == SpanRun(s, lo, mid, st)
       IN  IF Evaluated(left) THEN SpanRun(s, mid + 1, hi, left) ELSE left

BraceSpans(s) == SpanRun(s, 1, Len(s), SpanInit).spans

SpanText(s, sp) == SubSeq(s, sp.from, sp.to)

\* The span lies inside a longer balanced span of the text.
Nested(s, sp) == \E o \in BraceSpans(s) : o.from < sp.from /\ sp.to < o.to

\* C14: no candidate extractJsonCandidates returns is nested inside a longer
\* balanced object span of the text, and the depth counter is never
\* negative during the scan.
C14_MaximalSpans ==
  /\ scan.braceCount >= 0
  /\ pc = "scanned" =>
       \A k \in 1..Len(candidates) :
         \E sp \in BraceSpans(jsonStr) :
           SpanText(jsonStr, sp) = candidates[k] /\ ~Nested(jsonStr, sp)

\* }{"a":{"b":1},"c":2}: the counter ends at -1 and the one candidate is
\* the inner object {"b":1}.
C14_NestedCandidate ==
  /\ pc = "scanned"
  /\ jsonStr = <<"}">> \o DocNested
  /\ scan.braceCount = -1
  /\ candidates = <<SubSeq(DocNested, 6, 12)>>

\* The top-level balanced object spans of a text.
TopSpans(s) == {sp \in BraceSpans(s) : sp.top}

\* C15: extractJsonCandidates returns every top-level balanced object span
\* of the text, also after a stray closing brace, and the empty list only
\* when the text has no such span.
C15_LocatorComplete ==
  pc = "scanned" =>
    /\ \A sp \in TopSpans(jsonStr) :
         \E k \in 1..Len(candidates) : candidates[k] = SpanText(jsonStr, sp)
    /\ candidates = <<>> => TopSpans(jsonStr) = {}

\* }{}: the object after the stray brace is not returned.
C15_Missed ==
  /\ pc = "scanned"
  /\ jsonStr = <<"}", "{", "}">>
  /\ TopSpans(jsonStr) = {[from |-> 2, to |-> 3, top |-> TRUE]}
  /\ candidates = <<>>

\* C16: the list extractJsonCandidates returns is ordered by non-increasing
\* length; fixJsonString tries the candidates in that order and stops at the
\* first one that parses.
C16_CandidateOrder ==
  /\ \A k \in 1..(Len(candidates) - 1) : Len(candidates[k]) >= Len(candidates[k + 1])
  /\ pc = "candidates" => \A j \in 1..(ci - 1) : ~Parses(candidates[j])
  /\ (pc = "returned" /\ stages = <<"repair", "scan">>) =>
       /\ ci \in 1..Len(candidates)
       /\ result = candidates[ci]
       /\ Parses(candidates[ci])
       /\ \A j \in 1..(ci - 1) : ~Parses(candidates[j])

\* {} {"a":1,}: the longer candidate comes first, fails, and the shorter
\* one is returned.
C16_Witness ==
  /\ pc = "returned"
  /\ jsonStr = <<"{", "}", " ", "{", QUOTE, "a", QUOTE, ":", "1", ",", "}">>
  /\ candidates = <<SubSeq(jsonStr, 4, 11), SubSeq(jsonStr, 1, 2)>>
  /\ ci = 2
  /\ result = <<"{", "}">>

\* The documents whose outermost delimiter is an array-open.
ArrayDocs == {d \in Docs : Head(d) = "["}

\* C17: for an array text with a repairable defect (a trailing comma)
\* fixJsonString keeps the array's own brackets and returns text that
\* decodes to that array, not to one of its elements.
C17_ArraySupport ==
  pc = "returned" =>
    \A doc \in ArrayDocs :
      jsonStr \in TrailingCommas(doc) => (Parses(result) /\ Decode(result) = Decode(doc))

\* [{"id":"TC-1"},]: the boundary trim cuts to the braces and the element
\* {"id":"TC-1"} is returned.
C17_ElementReturned ==
  /\ pc = "returned"
  /\ jsonStr = SubSeq(DocArray, 1, 14) \o <<",", "]">>
  /\ stages = <<"repair">>
  /\ result = SubSeq(DocArray, 2, 14)

(***************************************************************************)
(* Two invocations of fixJsonString, their steps interleaved.  The first   *)
(* runs in the variables above, the second in the record other.            *)
(***************************************************************************)
\* A stage of fixJsonString that reads the candidates of the other
\* invocation, as if the list were a field of the service.
FixStep_SharedCandidates(l) ==
  IF l.pc = "repair"
    THEN LET r == SimpleJsonRepair(l.jsonStr)
         IN  IF Parses(r) THEN [l EXCEPT !.repaired = r, !.result = r, !.pc = "returned"]
             ELSE [l EXCEPT !.repaired = r, !.pc = "scan"]
  ELSE IF l.pc = "scan"
    THEN [l EXCEPT !.candidates = ExtractJsonCandidates(l.jsonStr), !.ci = 1,
                   !.pc = "candidates"]
  ELSE IF l.pc = "candidates" /\ l.ci <= Len(candidates)
    THEN IF Parses(candidates[l.ci])
           THEN [l EXCEPT !.result = candidates[l.ci], !.pc = "returned"]
           ELSE [l EXCEPT !.ci = @ + 1]
  ELSE IF l.pc = "candidates"
    THEN [l EXCEPT !.result = ExtremeJsonFallback(l.jsonStr), !.pc = "returned"]
  ELSE l

\* One stage of fixJsonString on the locals l of an invocation: the repair
\* and its parse, the scan, one iteration of the candidate loop, the fallback.
FixStep(l) ==
  IF l.pc = "repair"
    THEN LET r == SimpleJsonRepair(l.jsonStr)
         IN  IF Parses(r) THEN [l EXCEPT !.repaired = r, !.result = r, !.pc = "returned"]
             ELSE [l EXCEPT !.repaired = r, !.pc = "scan"]
  ELSE IF l.pc = "scan"
    THEN [l EXCEPT !.candidates = ExtractJsonCandidates(l.jsonStr), !.ci = 1,
                   !.pc = "candidates"]
  ELSE IF l.pc = "candidates" /\ l.ci <= Len(l.candidates)
    THEN IF Parses(l.candidates[l.ci])
           THEN [l EXCEPT !.result = l.candidates[l.ci], !.pc = "returned"]
           ELSE [l EXCEPT !.ci = @ + 1]
  ELSE IF l.pc = "candidates"
    THEN [l EXCEPT !.result = ExtremeJsonFallback(l.jsonStr), !.pc = "returned"]
  ELSE l

\* The texts the two invocations are given.
CallInputs ==
  Docs \cup Fragments \cup {o1 \o o2 : o1, o2 \in Objects \cup BrokenObjects}

InitCalls ==
  /\ raw = <<>>
  /\ progress = <<>>
  /\ caller = "none"
  /\ data = <<>>
  /\ testCases = <<>>
  /\ scan = ExtractInit
  /\ si = 0
  /\ jsonStr \in CallInputs
  /\ pc = "repair"
  /\ repaired = <<>>
  /\ candidates = <<>>
  /\ ci = 1
  /\ result = <<>>
  /\ stages = <<>>
  /\ other \in {NewCall(s) : s \in CallInputs}

\* A stage of the second invocation.
OtherStep ==
  /\ other.pc \in {"repair", "scan", "candidates"}
  /\ other' = FixStep(other)
  /\ UNCHANGED <<raw, jsonStr, pc, repaired, candidates, ci, result, data, testCases,
                 stages, scan, si, progress, caller>>

NextCalls == FixJsonStringNext \/ OtherStep

SpecCalls == InitCalls /\ [][NextCalls]_vars

\* fixJsonString as a function of its argument.
FixJsonString(s) ==
  LET r == SimpleJsonRepair(s)
      cs == ExtractJsonCandidates(s)
      k == MinOr({j \in 1..Len(cs) : Parses(cs[j])}, 0)
  IN  IF Parses(r) THEN r ELSE IF k # 0 THEN cs[k] ELSE ExtremeJsonFallback(s)

\* What each invocation returns is a function of its own text, so two
\* invocations on one text return one string.
SameTextSameResult ==
  /\ pc = "returned" => result = FixJsonString(jsonStr)
  /\ other.pc = "returned" => other.result = FixJsonString(other.jsonStr)
  /\ (pc = "returned" /\ other.pc = "returned" /\ jsonStr = other.jsonStr)
       => result = other.result

\* A step of one invocation leaves the locals of the other as they are.
OwnLocalsOnly ==
  \/ UNCHANGED other
  \/ UNCHANGED <<jsonStr, pc, repaired, candidates, ci, result, stages>>

\* C18: fixJsonString reads and writes nothing but its own locals: two
\* invocations on the same text return the same string, however their steps
\* interleave.
C18_Deterministic == [](SameTextSameResult) /\ [][OwnLocalsOnly]_vars

\* Two invocations on {"a":1,}{}, both returned with {}.
C18_Witness ==
  /\ jsonStr = <<"{", QUOTE, "a", QUOTE, ":", "1", ",", "}", "{", "}">>
  /\ other.jsonStr = jsonStr
  /\ pc = "returned"
  /\ other.pc = "returned"
  /\ result = <<"{", "}">>
  /\ other.result = result

(***************************************************************************)
(* fixJsonString with its two scans character by character                 *)
(***************************************************************************)
\* A text with a trailing comma, the comma doubled.
DoubledCommaTexts ==
  UNION {{SubSeq(t, 1, n) \o <<",">> \o SubSeq(t, n + 1, Len(t)) :
            n \in {i \in 1..Len(t) : TrailingCommaAt(t, i)}} :
         t \in TrailingCommaTexts}

\* {"a":[1],"b":2}
DocArrayKey ==
  <<"{", QUOTE, "a", QUOTE, ":", "[", "1", "]", ",", QUOTE, "b", QUOTE, ":", "2", "}">>

\* {"a":{},"":1}
DocEmptyKey ==
  <<"{", QUOTE, "a", QUOTE, ":", "{", "}", ",", QUOTE, QUOTE, ":", "1", "}">>

KeyedDocs == ObjectDocs \cup {DocArrayKey, DocEmptyKey}

\* doc without one of the commas that stand between a structural } or ] and
\* the key of the next member.
MissingCommas(doc) ==
  {SubSeq(doc, 1, n - 1) \o SubSeq(doc, n + 1, Len(doc)) :
     n \in {i \in 2..Len(doc) :
              /\ doc[i] = "," /\ doc[i - 1] \in {"}", "]"}
              /\ JAt(doc, i - 1).mode = "after" /\ JAt(doc, i).mode = "key"}}

MissingCommaTexts == UNION {MissingCommas(doc) : doc \in KeyedDocs}

\* [{"id":"TC-1","steps":["a"]}]
StepsArray ==
  SubSeq(DocArray, 1, 13)
    \o <<",", QUOTE, "s", "t", "e", "p", "s", QUOTE, ":", "[", QUOTE, "a", QUOTE, "]">>
    \o SubSeq(DocArray, 14, 15)

\* Arrays with arrays inside under the key test_cases, the enclosing object
\* not closed or absent: {"test_cases": [{"id":"TC-1","steps":["a"]}] and
\* "test_cases": [[1], [2]]
NestedFragments ==
  {<<"{">> \o KeyTestCases \o <<":", " ">> \o StepsArray,
   KeyTestCases \o <<":", " ", "[", "[", "1", "]", ",", " ", "[", "2", "]", "]">>}

StepInputs ==
  Docs \cup DamagedDocs \cup MixedPairs \cup StrayBraceTexts \cup DoubledCommaTexts
    \cup MissingCommaTexts \cup NestedFragments

InitSteps ==
  /\ Idle
  /\ raw = <<>>
  /\ progress = <<>>
  /\ caller = "none"
  /\ jsonStr \in StepInputs
  /\ pc = "repair"

\* simpleJsonRepair up to its loop: the trim, the cut to the braces, the
\* loop's locals.  repaired holds the function's working text.
RepairTrim ==
  /\ pc = "repair"
  /\ repaired' = BoundaryTrim(Trim(jsonStr))
  /\ scan' = RepairScanInit
  /\ si' = 0
  /\ pc' = "repairScanning"
  /\ UNCHANGED <<jsonStr, candidates, ci, result, data, stages, callerVars, other>>

\* One iteration of simpleJsonRepair's for (let i = 0; i < jsonStr.length; i++).
RepairChar ==
  /\ pc = "repairScanning"
  /\ si < Len(repaired)
  /\ scan' = RepairScanStep(scan, repaired[si + 1])
  /\ si' = si + 1
  /\ UNCHANGED <<jsonStr, pc, data, fixVars, callerVars, other>>

\* The rest of simpleJsonRepair after its loop, and JSON.parse(repaired).
RepairFinish ==
  /\ pc = "repairScanning"
  /\ si >= Len(repaired)
  /\ repaired' =
       InsertMissingCommas(
         InsertMissingCommas(CloseOddQuote(RemoveTrailingCommas(scan.result)), "}"), "]")
  /\ stages' = Append(stages, "repair")
  /\ IF Parses(repaired')
       THEN /\ result' = repaired'
            /\ pc' = "returned"
       ELSE /\ result' = result
            /\ pc' = "scan"
  /\ UNCHANGED <<jsonStr, candidates, ci, data, callerVars, scanVars, other>>

\* extractJsonCandidates up to its loop.
ScanStart ==
  /\ pc = "scan"
  /\ scan' = ExtractInit
  /\ si' = 0
  /\ pc' = "scanning"
  /\ UNCHANGED <<jsonStr, data, fixVars, callerVars, other>>

\* for (const candidate of candidates): the loop's start.
CandidatesStart ==
  /\ pc = "scanned"
  /\ ci' = 1
  /\ stages' = Append(stages, "scan")
  /\ pc' = "candidates"
  /\ UNCHANGED <<jsonStr, repaired, candidates, result, data, callerVars, scanVars, other>>

NextSteps ==
  \/ RepairTrim \/ RepairChar \/ RepairFinish
  \/ ScanStart \/ ScanChar \/ ScanReturn
  \/ CandidatesStart \/ TryCandidate \/ Fallback

SpecSteps == InitSteps /\ [][NextSteps]_vars

\* The text the running scan goes over.
ScannedText == IF pc = "repairScanning" THEN repaired ELSE jsonStr

\* The loop indices stay in their ranges.
IndicesInRange ==
  /\ pc \in {"repairScanning", "scanning"} => si \in 0..Len(ScannedText)
  /\ pc = "candidates" => ci \in 1..(Len(candidates) + 1)

\* An iteration of a scan visits the index after the one before, and a scan
\* ends only past the last index; an iteration of the candidate loop that
\* does not return goes to the next candidate.
LoopsAdvance ==
  /\ (pc \in {"repairScanning", "scanning"} /\ pc' = pc) => si' = si + 1
  /\ (pc \in {"repairScanning", "scanning"} /\ pc' # pc) => si = Len(ScannedText)
  /\ (pc = "candidates" /\ pc' = pc) => ci' = ci + 1

\* A bound on the steps fixJsonString still takes, linear in the length of
\* its text: each scan has its remaining indices left, the candidate loop
\* its remaining candidates.
StepsLeft ==
  LET L == Len(jsonStr)
  IN  CASE pc = "repair" -> 3 * L + 6
        [] pc = "repairScanning" -> 2 * L + 5 + (Len(repaired) - si)
        [] pc = "scan" -> 2 * L + 4
        [] pc = "scanning" -> L + 3 + (L - si)
        [] pc = "scanned" -> L + 2
        [] pc = "candidates" -> Len(candidates) + 2 - ci
        [] OTHER -> 0

\* C19: on every input fixJsonString terminates: every step takes the bound
\* on the steps left down, and the bound is a natural number.  Each scan
\* visits every index once, in increasing order, and the candidate loop runs
\* at most once per candidate.
C19_Termination ==
  /\ [](IndicesInRange /\ StepsLeft \in Nat)
  /\ [][LoopsAdvance /\ StepsLeft' < StepsLeft]_vars

\* {} {"a":1,}: both scans ran to the end of their text and the loop tried
\* both candidates.
C19_Witness ==
  /\ pc = "returned"
  /\ jsonStr = <<"{", "}", " ", "{", QUOTE, "a", QUOTE, ":", "1", ",", "}">>
  /\ si = Len(jsonStr)
  /\ Len(candidates) = 2
  /\ ci = 2

(***************************************************************************)
(* Which characters of a text lie inside a string literal: after an odd    *)
(* number of quotes, a character after a backslash being no quote          *)
(***************************************************************************)
LiteralInit == [inString |-> FALSE, escapeNext |-> FALSE, inside |-> {}]

LiteralStep(st, t, i) ==
  LET in == IF st.inString THEN st.inside \cup {i} ELSE st.inside
  IN  IF st.escapeNext THEN [st EXCEPT !.escapeNext = FALSE, !.inside = in]
      ELSE IF t[i] = BSLASH THEN [st EXCEPT !.escapeNext = TRUE, !.inside = in]
      ELSE IF t[i] = QUOTE THEN [st EXCEPT !.inString = ~@]
      ELSE [st EXCEPT !.inside = in]

RECURSIVE LiteralRun(_, _, _, _)
LiteralRun(t, lo, hi, st) ==
  IF lo > hi THEN st
  ELSE IF lo = hi THEN LiteralStep(st, t, lo)
  ELSE LET mid == (lo + hi) \div 2
           left == LiteralRun(t, lo, mid, st)
       IN  IF Evaluated(left) THEN LiteralRun(t, mid + 1, hi, left) ELSE left

\* The indices of t inside a string literal (the quotes are outside).
InsideString(t) == LiteralRun(t, 1, Len(t), LiteralInit).inside

\* The characters of t outside every string literal, in order.
OutsideText(t) ==
  LET in == InsideString(t) IN SelectSeq([i \in 1..Len(t) |-> <<i, t[i]>>],
                                         LAMBDA p : p[1] \notin in)

\* C20: after the scan of simpleJsonRepair (and after each of its
\* iterations) no raw newline, tab or carriage return is inside a string
\* literal of the output, a control character after a backslash included,
\* and the characters outside string literals are those of the input.
C20_ControlChars ==
  pc = "repairScanning" =>
    /\ \A i \in InsideString(scan.result) : ~IsControl(scan.result[i])
    /\ [k \in 1..Len(OutsideText(scan.result)) |-> OutsideText(scan.result)[k][2]]
         = [k \in 1..Len(OutsideText(SubSeq(repaired, 1, si))) |->
              OutsideText(SubSeq(repaired, 1, si))[k][2]]

\* {"a":"\ and a raw newline, then "}\\"}: the scan is over, and the newline
\* after the backslash is in the output as it was.
C20_RawNewlineKept ==
  /\ pc = "repairScanning"
  /\ jsonStr = SubSeq(DocEscapes, 1, 7) \o <<NL>> \o SubSeq(DocEscapes, 8, 13)
  /\ si = Len(repaired)
  /\ scan.result = jsonStr
  /\ 8 \in InsideString(scan.result)
  /\ scan.result[8] = NL

(***************************************************************************)
(* The fixes of simpleJsonRepair after its loop                            *)
(***************************************************************************)
\* The number of backslashes directly before the index i of t.
BackslashesBefore(t, i) ==
  LET k == IF \E j \in 1..(i - 1) : t[j] # BSLASH
             THEN CHOOSE j \in 1..(i - 1) :
                    t[j] # BSLASH /\ \A m \in (j + 1)..(i - 1) : t[m] = BSLASH
             ELSE 0
  IN  i - 1 - k

\* The number of quotes of t that no backslash escapes.
UnescapedQuotes(t) ==
  Cardinality({i \in 1..Len(t) : t[i] = QUOTE /\ BackslashesBefore(t, i) % 2 = 0})

\* The step that ends simpleJsonRepair.
RepairEnds == pc = "repairScanning" /\ pc' # pc

\* C21: simpleJsonRepair appends one closing quote exactly when the number
\* of unescaped quotes of the text is odd; a quote after an escaping
\* backslash is not counted.
C21_QuoteParity ==
  [][RepairEnds =>
       LET t == RemoveTrailingCommas(scan.result)
           closed == IF UnescapedQuotes(t) % 2 = 1 THEN Append(t, QUOTE) ELSE t
       IN  repaired' = InsertMissingCommas(InsertMissingCommas(closed, "}"), "]")]_vars

\* {"a":"\"}\\"}: four unescaped quotes and an escaped one; a quote is
\* appended and the text no longer parses.
C21_EscapedCounted ==
  /\ pc = "scan"
  /\ jsonStr = DocEscapes
  /\ UnescapedQuotes(jsonStr) = 4
  /\ repaired = Append(DocEscapes, QUOTE)

\* A trailing comma that one pass of the removal left in the text t.
CommaLeft(t) == \E i \in 1..Len(t) : TrailingCommaAt(t, i)

\* C22: repairing a repaired text changes nothing, and one pass of the
\* trailing-comma removal leaves no comma that is followed only by
\* whitespace and a closing delimiter.
C22_Idempotent ==
  [][RepairEnds =>
       /\ SimpleJsonRepair(repaired') = repaired'
       /\ ~CommaLeft(RemoveTrailingCommas(scan.result))]_vars

\* {"a": [1, 2,,]}: the pass removes the second comma only, a second call
\* removes the first.
C22_CommaLeft ==
  /\ pc = "scan"
  /\ jsonStr = SubSeq(DocTrailing, 1, 11) \o <<",", ",">> \o SubSeq(DocTrailing, 12, 13)
  /\ repaired = SubSeq(DocTrailing, 1, 11) \o <<",">> \o SubSeq(DocTrailing, 12, 13)
  /\ SimpleJsonRepair(repaired) = DocTrailing

\* The characters of t inside its string literals, in order.
InsideText(t) ==
  LET in == InsideString(t) IN SelectSeq([i \in 1..Len(t) |-> <<i, t[i]>>],
                                         LAMBDA p : p[1] \in in)

\* The contents of the string literals of t.
LiteralChars(t) == [k \in 1..Len(InsideText(t)) |-> InsideText(t)[k][2]]

\* C23: the removal of trailing commas and the insertion of missing commas
\* leave the contents of every string literal as they were: no comma is
\* deleted or inserted inside a string literal.
C23_StringAware ==
  [][RepairEnds =>
       LET removed == RemoveTrailingCommas(scan.result)
           closed == CloseOddQuote(removed)
       IN  /\ LiteralChars(removed) = LiteralChars(scan.result)
           /\ LiteralChars(repaired') = LiteralChars(closed)]_vars

\* {"a": ",}"}: the comma of the string value is deleted, and the repaired
\* text parses to another value.
C23_CommaDeleted ==
  /\ pc = "returned"
  /\ jsonStr = DocCommaBrace
  /\ repaired = SubSeq(DocCommaBrace, 1, 7) \o SubSeq(DocCommaBrace, 9, 11)
  /\ LiteralChars(repaired) # LiteralChars(jsonStr)
  /\ Decode(result) # Decode(jsonStr)

\* C24: for a valid object text that lost one comma between a structural }
\* or ] and the key of the next member, fixJsonString returns text that
\* parses to the value of the original text.
C24_MissingComma ==
  pc = "returned" =>
    \A doc \in KeyedDocs :
      jsonStr \in MissingCommas(doc) => (Parses(result) /\ Decode(result) = Decode(doc))

\* {"a":{}"":1}: no comma is inserted before the empty key, no stage parses
\* the text, and the empty envelope comes back.
C24_EmptyKey ==
  /\ pc = "returned"
  /\ jsonStr \in MissingCommas(DocEmptyKey)
  /\ repaired = jsonStr
  /\ result = EmptyEnvelope

(***************************************************************************)
(* The quote and escape tracking of the two character loops                *)
(***************************************************************************)
\* One iteration of either loop.
CharStep == pc \in {"repairScanning", "scanning"} /\ si' = si + 1

\* The text the running loop reads.
ScannedBy == IF pc = "repairScanning" THEN repaired ELSE jsonStr

\* C25: in both loops the escape flag is on exactly after an odd run of
\* backslashes, so it covers one character only; the character under the
\* flag changes nothing but the flag; a quote toggles the in-string state
\* exactly when an even number of backslashes (none, or escaped pairs)
\* stands directly before it.
C25_EscapeHandling ==
  /\ [](pc \in {"repairScanning", "scanning"} =>
          scan.escapeNext = (BackslashesBefore(ScannedBy, si + 1) % 2 = 1))
  /\ [][CharStep =>
          LET char == ScannedBy[si + 1]
              toggles == char = QUOTE /\ BackslashesBefore(ScannedBy, si + 1) % 2 = 0
          IN  /\ scan'.inString = (IF toggles THEN ~scan.inString ELSE scan.inString)
              /\ scan'.escapeNext = (char = BSLASH /\ ~scan.escapeNext)
              /\ (scan.escapeNext /\ pc = "scanning") =>
                   scan' = [scan EXCEPT !.escapeNext = FALSE]
              /\ (scan.escapeNext /\ pc = "repairScanning") =>
                   scan'.result = Append(scan.result, char)]_vars

\* {"a":"\"}\\"}: extractJsonCandidates has read up to the quote after the
\* backslash pair; the escaped quote and the brace in the string left it in
\* the string at depth 1, and the quote after the pair ended the string.
C25_QuoteAfterPair ==
  /\ pc = "scanning"
  /\ jsonStr = DocEscapes
  /\ si = 12
  /\ ExtractRun(jsonStr, 0, 8, ExtractInit).inString
  /\ ~scan.inString /\ ~scan.escapeNext
  /\ scan.braceCount = 1

(***************************************************************************)
(* The array the fallback captures                                         *)
(***************************************************************************)
\* The number of characters c among the first k of t that are outside its
\* string literals.
StructuralCount(t, k, c) ==
  Cardinality({i \in 1..k : t[i] = c /\ i \notin InsideString(t)})

\* t runs from an opening bracket to the closing bracket that matches it.
WholeArray(t) ==
  /\ t # <<>> /\ t[1] = "[" /\ t[Len(t)] = "]"
  /\ StructuralCount(t, Len(t), "[") = StructuralCount(t, Len(t), "]")
  /\ \A k \in 1..(Len(t) - 1) : StructuralCount(t, k, "[") > StructuralCount(t, k, "]")

\* The text the fallback's pattern matched in s, from its first bracket on.
CapturedArray(s) ==
  LET testFilesMatch == KeyArrayMatch(s, KeyTestFiles)
      m == IF testFilesMatch # <<>> THEN testFilesMatch ELSE KeyArrayMatch(s, KeyTestCases)
  IN  Substring(m, IndexOf(m, "["), Len(m))

\* C26: when the fallback matches a known key, the captured text runs from
\* the array's opening bracket to the bracket that closes it, and the
\* envelope returned ends with that array and a closing brace.
C26_WholeArray ==
  (FromFallback /\ result # EmptyEnvelope) =>
    /\ WholeArray(CapturedArray(jsonStr))
    /\ SubSeq(result, Len(result) - Len(CapturedArray(jsonStr)), Len(result))
         = CapturedArray(jsonStr) \o <<"}">>

\* {"test_cases": [{"id":"TC-1","steps":["a"]}]: the capture stops at the
\* bracket that closes the steps, [{"id":"TC-1","steps":["a"]
C26_StepsCutOff ==
  /\ FromFallback
  /\ jsonStr = <<"{">> \o KeyTestCases \o <<":", " ">> \o StepsArray
  /\ CapturedArray(jsonStr) = SubSeq(StepsArray, 1, Len(StepsArray) - 2)
  /\ result = Envelope(KeyTestCases, SubSeq(jsonStr, 2, Len(jsonStr) - 2))

(***************************************************************************)
(* generateTestCases and generateAutotests on the local-LLM path, from the *)
(* trimmed response to the promise's outcome, with the progress messages   *)
(***************************************************************************)
\* raw.match(/\{[\s\S]*?\}/): from the first { to the first } after it, or
\* <<>> for null.
ObjectMatch(s) ==
  LET first == IndexOf(s, "{")
      closers == {i \in 1..Len(s) : s[i] = "}" /\ i > first + 1}
  IN  IF first # -1 /\ closers # {}
        THEN Substring(s, first, MinOr(closers, 0))
        ELSE <<>>

\* !value for a decoded value: undefined, null, false, 0, -0 and "".
Falsy(v) ==
  \/ v \in {Undefined, <<"n", "u", "l", "l">>, <<"f", "a", "l", "s", "e">>, <<QUOTE, QUOTE>>}
  \/ /\ v # <<>> /\ v[1] \in Digits \cup {"-"}
     /\ \A i \in 1..Len(v) :
          (\A j \in 1..i : v[j] \notin {"e", "E"}) => v[i] \in {"0", "-", "."}

\* {"test_files": [{"p":1}]}
FilesNested ==
  <<"{">> \o KeyTestFiles
    \o <<":", " ", "[", "{", QUOTE, "p", QUOTE, ":", "1", "}", "]", "}">>

\* {"test_files": 0}
FilesZero == <<"{">> \o KeyTestFiles \o <<":", " ", "0", "}">>

\* The objects a response holds.
FileObjects ==
  {EmptyEnvelope, <<"{">> \o FilesOne \o <<"}">>, FilesNested, FilesZero, DocHello,
   DocNested}

\* Explanatory prose before and after the object.
ObjectProses ==
  {<<>>, <<"H", "e", "r", "e", ":", " ">>, <<" ", "D", "o", "n", "e", ".">>,
   <<"s", "e", "e", " ", "{", "1", "}", " ">>}

AutotestResponses ==
  {p1 \o obj \o p2 : p1 \in ObjectProses, obj \in FileObjects, p2 \in ObjectProses}
    \cup Edits(<<"{">> \o FilesOne \o <<"}">>) \cup ShortTexts

\* The call after the request to the model has returned: the response, the
\* first progress message and, with debugEnabled, the debug message.
InitCallers ==
  /\ Idle
  /\ caller \in {"generateTestCases", "generateAutotests"}
  /\ raw \in (IF caller = "generateTestCases" THEN Responses ELSE AutotestResponses)
  /\ progress \in {<<Generating>>, <<Generating, Debug(Trim(raw))>>}
  /\ jsonStr = <<>>
  /\ pc = "extract"

\* const jsonMatch = raw.match(/\{[\s\S]*?\}/); if (!jsonMatch) throw ...
ExtractObject ==
  /\ caller = "generateAutotests"
  /\ pc = "extract"
  /\ LET jsonMatch == ObjectMatch(Trim(raw))
     IN  IF jsonMatch = <<>>
           THEN /\ pc' = "rejected"
                /\ jsonStr' = jsonStr
                /\ progress' = Append(progress, ErrorMessage("no JSON"))
           ELSE /\ pc' = "parse"
                /\ jsonStr' = jsonMatch
                /\ progress' = progress
  /\ UNCHANGED <<raw, testCases, caller, data, fixVars, scanVars, other>>

\* catch (error) { onProgress?.(`Error: ${error.message}`); throw error }, for
\* the SyntaxError of the second JSON.parse.
CatchThrown ==
  /\ pc = "threw"
  /\ progress' = Append(progress, ErrorMessage("SyntaxError"))
  /\ pc' = "rejected"
  /\ UNCHANGED <<raw, testCases, caller, jsonStr, data, fixVars, scanVars, other>>

\* A caller that returns whatever was decoded.
CheckTestFiles_NoGuard ==
  /\ caller = "generateAutotests"
  /\ pc = "done"
  /\ progress' = Append(progress, Ready)
  /\ pc' = "resolved"
  /\ UNCHANGED <<raw, testCases, caller, jsonStr, data, fixVars, scanVars, other>>

\* if (!data.test_files) throw ...; onProgress?.('...'); return data
CheckTestFiles ==
  /\ caller = "generateAutotests"
  /\ pc = "done"
  /\ IF data = <<"n", "u", "l", "l">>
       THEN /\ progress' = Append(progress, ErrorMessage("TypeError"))
            /\ pc' = "rejected"
       ELSE IF Falsy(Member(data, KeyTestFiles))
         THEN /\ progress' = Append(progress, ErrorMessage("bad autotests"))
              /\ pc' = "rejected"
         ELSE /\ progress' = Append(progress, Ready)
              /\ pc' = "resolved"
  /\ UNCHANGED <<raw, testCases, caller, jsonStr, data, fixVars, scanVars, other>>

NextCallers ==
  \/ ExtractArray \/ ParseArray \/ ReadTestCases \/ CheckTestCases
  \/ ExtractObject \/ DirectParse \/ ReParse \/ CatchThrown \/ CheckTestFiles
  \/ FixJsonStringNext

SpecCallers == InitCallers /\ [][NextCallers]_vars

\* The part of s from its first character open to its last character close.
Span(s, open, close) ==
  Substring(s, IndexOf(s, open), LastIndexOf(s, close) + 1)

\* C27: the text a caller extracts runs from the first opening delimiter of
\* the trimmed response to the last closing one, brackets in
\* generateTestCases and braces in generateAutotests; a valid object in prose
\* without braces is handed on whole and the call ends with its value.
C27_PreFilterSpan ==
  /\ (caller = "generateTestCases" /\ pc = "parseArray")
       => jsonStr = Span(Trim(raw), "[", "]")
  /\ (caller = "generateAutotests" /\ pc = "parse")
       => jsonStr = Span(Trim(raw), "{", "}")
  /\ (caller = "generateAutotests" /\ pc \in {"resolved", "rejected"}) =>
       \A p1, p2 \in ObjectProses : \A obj \in FileObjects :
         (raw = p1 \o obj \o p2 /\ Count(p1 \o p2, "{") = 0) => data = Decode(obj)

\* Here: {"test_files": [{"p":1}]}: the text extracted ends at the first },
\* {"test_files": [{"p":1}, and the call resolves with the empty envelope's
\* value.
C27_NestedCutOff ==
  /\ caller = "generateAutotests"
  /\ pc = "resolved"
  /\ raw = <<"H", "e", "r", "e", ":", " ">> \o FilesNested
  /\ jsonStr = SubSeq(FilesNested, 1, Len(FilesNested) - 2)
  /\ data = Decode(EmptyEnvelope)

\* C28: when the response is a valid array but for a comma before its final
\* ], the text given to fixJsonString is the envelope { "test_cases": <the
\* array> }, and the call resolves with the test cases of the array without
\* the comma.
C28_Recoverable ==
  (caller = "generateTestCases" /\ pc \in {"repair", "resolved", "rejected"}) =>
    \A arr \in Arrays :
      raw \in TrailingCommaArrays(arr) =>
        /\ (pc = "repair" /\ stages = <<>>) => jsonStr = CasesOpen \o raw \o <<" ", "}">>
        /\ pc # "repair" => (pc = "resolved" /\ testCases = Decode(arr))

\* [{"id":"TC-1"},]: both brackets are replaced, fixJsonString is given
\* { "test_cases": {"id":"TC-1"}, }, test_cases is the record and no array, and
\* the call rejects.
C28_BracketsLost ==
  /\ caller = "generateTestCases"
  /\ pc = "rejected"
  /\ raw = SubSeq(DocArray, 1, 14) \o <<",", "]">>
  /\ jsonStr = CasesOpen \o SubSeq(DocArray, 2, 14) \o <<",", " ", "}">>
  /\ testCases = SubSeq(DocArray, 2, 14)
  /\ progress = <<Generating, ErrorMessage("bad test cases")>>

\* The number of messages of msgs that start with the text start.
Emitted(msgs, start) == Cardinality({i \in 1..Len(msgs) : msgs[i][1] = start})

\* C29: a call that resolved has a testCases that is an array
\* (generateTestCases) or a decoded value with a test_files member
\* (generateAutotests), and emitted the final message and no error message; a
\* call that rejected emitted exactly one error message and never the final
\* message; a call still running has emitted neither, and a step that ends
\* the call emits one of the two.
C29_ShapeGuard ==
  /\ [](/\ pc = "resolved" =>
             /\ caller = "generateTestCases" => IsArray(testCases)
             /\ caller = "generateAutotests" => Member(data, KeyTestFiles) # Undefined
             /\ Emitted(progress, Ready[1]) = 1 /\ Emitted(progress, "Error: ") = 0
        /\ pc = "rejected" =>
             (Emitted(progress, "Error: ") = 1 /\ Emitted(progress, Ready[1]) = 0)
        /\ pc \notin {"resolved", "rejected"} =>
             (Emitted(progress, "Error: ") = 0 /\ Emitted(progress, Ready[1]) = 0))
  /\ [][/\ pc \in {"resolved", "rejected"} => UNCHANGED vars
        /\ progress' # progress =>
             /\ pc' \in {"resolved", "rejected"}
             /\ progress' = Append(progress, progress'[Len(progress')])
             /\ progress'[Len(progress')][1] \in {Ready[1], "Error: "}]_vars

\* {"a": "hello"} decodes at once and has no test_files: one error message,
\* and the call rejects.
C29_NoTestFiles ==
  /\ caller = "generateAutotests"
  /\ pc = "rejected"
  /\ raw = DocHello
  /\ data = Decode(DocHello)
  /\ stages = <<>>
  /\ progress = <<Generating, Debug(raw), ErrorMessage("bad autotests")>>

\* The quote and escape flags of a loop's state.
Flags(st) == <<st.inString, st.escapeNext>>

\* C30: before every index of the text it reads, the loop of
\* simpleJsonRepair has the flags (inString, escapeNext) that the loop of
\* extractJsonCandidates has before that index of the same text, and the
\* other way round.
C30_ScannerAgreement ==
  /\ pc = "repairScanning" =>
       Flags(scan) = Flags(ExtractRun(repaired, 0, si - 1, ExtractInit))
  /\ pc = "scanning" =>
       Flags(scan) = Flags(RepairScanRun(jsonStr, 1, si, RepairScanInit))

\* {"a":\"}\\"}, the opening quote of the value lost: after the backslash
\* outside every string both loops have the escape flag on.
C30_BackslashOutside ==
  /\ pc = "scanning"
  /\ jsonStr = SubSeq(DocEscapes, 1, 5) \o SubSeq(DocEscapes, 7, 13)
  /\ si = 6
  /\ Flags(scan) = <<FALSE, TRUE>>
  /\ Flags(RepairScanRun(jsonStr, 1, si, RepairScanInit)) = <<FALSE, TRUE>>

==========================================================================
